---- MODULE Spec2Model ----
(***************************************************************************)
(* Vulkan::RenderpassCache (vk_renderpass_cache.h / .cpp): the table of    *)
(* render passes, the framebuffer cache and the begin/end render state.    *)
(***************************************************************************)
EXTENDS Integers, Sequences, FiniteSets, TLC

(* ---------------------------------------------------------------------- *)
(* Program constants                                                        *)
(* ---------------------------------------------------------------------- *)

\* static constexpr size_t MAX_COLOR_FORMATS = 5;
MAX_COLOR_FORMATS == 5

\* static constexpr size_t MAX_DEPTH_FORMATS = 4;
MAX_DEPTH_FORMATS == 4

\* the literal subtracted from the depth format's ordinal
DEPTH_BASE_OFFSET == 14

\* A u32 is held as the integer of [-2^31, 2^31) that has its 32 bits: a
\* u32 below 2^31 is itself, a u32 x from 2^31 on is x - 2^32.
\* VideoCore::PixelFormat::Invalid is the largest u32, 2^32 - 1, held as -1.
Invalid == -1

\* a subtraction that stops at 0 instead of wrapping around
SubSaturating(a, b) == IF a < b THEN 0 ELSE a - b

\* a - b in u32 arithmetic (for operands whose difference stays above -2^31)
SubU32(a, b) == a - b

\* a <= b between two u32
LeqU32(a, b) ==
    IF (a >= 0) = (b >= 0) THEN a <= b ELSE a >= 0

(* ---------------------------------------------------------------------- *)
(* Bounds of the model                                                      *)
(* ---------------------------------------------------------------------- *)

\* commands the scheduler holds at most
MaxCommands == 3

\* render passes the device creates at most
MaxRenderPassObjects == 2

\* framebuffers the device creates at most
MaxFramebufferObjects == 2

(* ---------------------------------------------------------------------- *)
(* Inputs                                                                   *)
(* ---------------------------------------------------------------------- *)

\* Ordinals handed to GetRenderpass as the color argument: a color format,
\* ordinal 6 (one above MAX_COLOR_FORMATS) and Invalid.
ColorArgs == {0, 6, Invalid}

\* Ordinals handed to GetRenderpass as the depth argument: the base offset,
\* three above it, one below it, five above it, ordinal 0 and Invalid.
DepthArgs == {0, 13, 14, 17, 19, Invalid}

\* vk::ClearValue is a union: color (4 words) overlays depthStencil (the
\* first 2 words).  Three values: zero, one differing from zero only in a
\* word that belongs to color alone, one differing in the depth word.
ClearZero == <<0, 0, 0, 0>>
ClearColorOnly == <<0, 0, 1, 0>>
ClearDepth == <<1, 0, 0, 0>>
ClearValues == {ClearZero, ClearColorOnly, ClearDepth}

\* The (do_clear, clear) pairs the renderer passes: the defaults (no clear,
\* zero clear value) and a clear with each clear value.
ClearArgs == {<<FALSE, ClearZero>>} \cup ({TRUE} \X ClearValues)

\* The formats a caller of the rendering sequence asks a render pass for:
\* those of the framebuffers below, and a depth ordinal five above the base.
SequenceColorArgs == {0}
SequenceDepthArgs == {14, 19, Invalid}

\* clear.depthStencil: the first two words of the union
DepthStencil(clear) == <<clear[1], clear[2]>>

\* Framebuffer descriptors the renderer passes to BeginRendering.  View
\* handle 0 is the null handle.  fbC has fbA's views with other dimensions
\* and another render area; fbB has another view set and no depth view.
fbA == [views |-> <<1, 2>>, width |-> 1, height |-> 1,
        color_format |-> 0, depth_format |-> 14, render_area |-> 1]
fbB == [views |-> <<3, 0>>, width |-> 1, height |-> 1,
        color_format |-> 0, depth_format |-> Invalid, render_area |-> 1]
fbC == [views |-> <<1, 2>>, width |-> 2, height |-> 2,
        color_format |-> 0, depth_format |-> 14, render_area |-> 2]
FramebufferArgs == {fbA, fbB, fbC}

(* ---------------------------------------------------------------------- *)
(* State                                                                    *)
(* ---------------------------------------------------------------------- *)

VARIABLES
    cached_renderpasses, \* the table: slot -> render-pass handle, 0 = null
    framebuffers,        \* the map FramebufferInfo -> framebuffer handle
    state,               \* RenderpassCache::State
    rp_objects,          \* render passes the device created; handle = index
    fb_objects,          \* framebuffers the device created; handle = index
    commands,            \* what was recorded in the scheduler, in order
    aborted,             \* the fatal assertion fired
    last_call,           \* the call that completed last, and what it returned
    returned,            \* every (arguments, handle) GetRenderpass returned
    begun,               \* (identity, framebuffer) of the passes begun since
                         \* construction or the last ClearFramebuffers
    executed,            \* how many recorded commands the scheduler has run
    cache_mutex,         \* std::mutex cache_mutex: 0 = free, else the holder
    pc,                  \* per thread: where it is in its call
    frame                \* per thread: the arguments and locals of its call

cachevars == <<cached_renderpasses, framebuffers, state, rp_objects,
               fb_objects, commands, aborted, last_call, returned, begun,
               executed>>
threadvars == <<cache_mutex, pc, frame>>
vars == <<cached_renderpasses, framebuffers, state, rp_objects, fb_objects,
          commands, aborted, last_call, returned, begun, executed,
          cache_mutex, pc, frame>>

\* Thread 1 is the command-recording thread, the only one that drives
\* BeginRendering, EndRendering and ClearFramebuffers; the others need only
\* a render-pass handle (pipeline compilation).
RecordingThread == 1
WorkerThreads == {2, 3}
Threads == {RecordingThread} \cup WorkerThreads

NoFrame == [color |-> Invalid, depth |-> Invalid, is_clear |-> FALSE,
            slot |-> <<0, 0, FALSE>>, renderpass |-> 0,
            fb |-> fbA, do_clear |-> FALSE, clear |-> ClearZero,
            inside |-> "GetRenderpass"]

Slots == (0..MAX_COLOR_FORMATS) \X (0..MAX_DEPTH_FORMATS) \X BOOLEAN

\* tsl::robin_map with no entry
EmptyMap == [i \in {} |-> 0]

\* State state{};
InitState == [views |-> <<0, 0>>, render_area |-> 0, clear |-> ClearZero,
              do_clear |-> FALSE, rendering |-> FALSE]

Init ==
    /\ cached_renderpasses = [s \in Slots |-> 0]
    /\ framebuffers = EmptyMap
    /\ state = InitState
    /\ rp_objects = <<>>
    /\ fb_objects = <<>>
    /\ commands = <<>>
    /\ aborted = FALSE
    /\ last_call = [op |-> "construct", args |-> <<>>, active |-> FALSE,
                    ret |-> 0]
    /\ returned = {}
    /\ begun = {}
    /\ executed = 0
    /\ cache_mutex = 0
    /\ pc = [t \in Threads |-> "idle"]
    /\ frame = [t \in Threads |-> NoFrame]

(* ---------------------------------------------------------------------- *)
(* GetRenderpass and the builders                                           *)
(* ---------------------------------------------------------------------- *)

\* a depth index that subtracts one less than the base offset
DepthIndexOffByOne(depth) ==
    IF depth = Invalid THEN MAX_DEPTH_FORMATS
    ELSE SubU32(depth, DEPTH_BASE_OFFSET - 1)

\* color == Invalid ? MAX_COLOR_FORMATS : static_cast<u32>(color)
ColorIndex(color) ==
    IF color = Invalid THEN MAX_COLOR_FORMATS ELSE color

\* depth == Invalid ? MAX_DEPTH_FORMATS : (static_cast<u32>(depth) - 14)
DepthIndex(depth) ==
    IF depth = Invalid THEN MAX_DEPTH_FORMATS
    ELSE SubU32(depth, DEPTH_BASE_OFFSET)

\* the condition of ASSERT_MSG
IndexAssert(color_index, depth_index) ==
    /\ LeqU32(color_index, MAX_COLOR_FORMATS)
    /\ LeqU32(depth_index, MAX_DEPTH_FORMATS)

\* instance.GetTraits(format).native: Invalid has the undefined format 0,
\* every other pixel format a native format of its own
NativeFormat(format) ==
    IF format = Invalid THEN 0 ELSE format + 1

\* a load op that discards the previous contents when nothing is cleared
LoadOpDontCare(is_clear) ==
    IF is_clear THEN "eClear" ELSE "eDontCare"

\* is_clear ? vk::AttachmentLoadOp::eClear : vk::AttachmentLoadOp::eLoad
LoadOp(is_clear) ==
    IF is_clear THEN "eClear" ELSE "eLoad"

\* the first attachment description of CreateRenderPass
ColorAttachment(color, load_op) ==
    [format |-> color, loadOp |-> load_op, storeOp |-> "eStore",
     stencilLoadOp |-> "eDontCare", stencilStoreOp |-> "eDontCare",
     initialLayout |-> "eGeneral", finalLayout |-> "eGeneral"]

\* the second attachment description of CreateRenderPass
DepthAttachment(depth, load_op) ==
    [format |-> depth, loadOp |-> load_op, storeOp |-> "eStore",
     stencilLoadOp |-> load_op, stencilStoreOp |-> "eStore",
     initialLayout |-> "eGeneral", finalLayout |-> "eGeneral"]

\* a CreateRenderPass whose depth reference is attachment 1 whether or not
\* there is a color attachment
CreateRenderPassDepthAtOne(color, depth, load_op) ==
    LET use_color == color # 0
        use_depth == depth # 0
        first == IF use_color THEN <<ColorAttachment(color, load_op)>> ELSE <<>>
        second == IF use_depth THEN <<DepthAttachment(depth, load_op)>> ELSE <<>>
    IN  [attachments |-> first \o second,
         attachmentCount |-> Len(first) + Len(second),
         subpassCount |-> 1,
         inputAttachmentCount |-> 0,
         colorAttachmentCount |-> IF use_color THEN 1 ELSE 0,
         colorAttachment |-> IF use_color THEN 0 ELSE -1,
         depthStencilAttachment |-> IF use_depth THEN 1 ELSE -1,
         dependencyCount |-> 0]

\* CreateRenderPass: the vk::RenderPassCreateInfo handed to the device.
\* A reference of -1 is an absent one (count 0, or a null pointer).
CreateRenderPass(color, depth, load_op) ==
    LET use_color == color # 0
        use_depth == depth # 0
        first == IF use_color THEN <<ColorAttachment(color, load_op)>> ELSE <<>>
        second == IF use_depth THEN <<DepthAttachment(depth, load_op)>> ELSE <<>>
    IN  [attachments |-> first \o second,
         attachmentCount |-> Len(first) + Len(second),
         subpassCount |-> 1,
         inputAttachmentCount |-> 0,
         colorAttachmentCount |-> IF use_color THEN 1 ELSE 0,
         colorAttachment |-> IF use_color THEN 0 ELSE -1,
         depthStencilAttachment |->
             IF use_depth THEN Len(first) ELSE -1,
         dependencyCount |-> 0]

\* a lock that is taken whoever holds it
MutexIgnored(mutex) == TRUE

\* std::scoped_lock lock{cache_mutex}; is entered when no one holds the mutex
MutexFree(mutex) == mutex = 0

\* a lookup that never finds the stored render pass
LookupMissAlways(table, slot) == TRUE

\* if (!renderpass)
LookupMiss(table, slot) == table[slot] = 0

\* The body of GetRenderpass under the lock: what it asserts, stores,
\* creates and returns.
GetRenderpassCall(table, objects, color, depth, is_clear) ==
    LET color_index == ColorIndex(color)
        depth_index == DepthIndex(depth)
        slot == <<color_index, depth_index, is_clear>>
    IN  IF ~IndexAssert(color_index, depth_index)
        THEN [ok |-> FALSE, table |-> table, objects |-> objects,
              renderpass |-> 0]
        ELSE IF LookupMiss(table, slot)
        THEN LET created == Append(objects,
                     CreateRenderPass(NativeFormat(color), NativeFormat(depth),
                                      LoadOp(is_clear)))
             IN  [ok |-> TRUE,
                  table |-> [table EXCEPT ![slot] = Len(created)],
                  objects |-> created, renderpass |-> Len(created)]
        ELSE [ok |-> TRUE, table |-> table, objects |-> objects,
              renderpass |-> table[slot]]

\* return *renderpass; as the callers see it: the handle is added to what
\* was returned for these arguments (nothing returns when the assertion fired)
Returns(seen, ok, color, depth, is_clear, renderpass) ==
    IF ok
    THEN seen \cup {[args |-> <<color, depth, is_clear>>,
                     handle |-> renderpass]}
    ELSE seen

\* vk::RenderPass GetRenderpass(color, depth, is_clear), called on its own
GetRenderpass(color, depth, is_clear) ==
    /\ ~aborted
    /\ MutexFree(cache_mutex)
    /\ LET r == GetRenderpassCall(cached_renderpasses, rp_objects, color,
                                  depth, is_clear)
       IN  /\ Len(r.objects) <= MaxRenderPassObjects
           /\ cached_renderpasses' = r.table
           /\ rp_objects' = r.objects
           /\ aborted' = ~r.ok
           /\ last_call' = [op |-> "GetRenderpass",
                            args |-> <<color, depth, is_clear>>,
                            active |-> state.rendering,
                            ret |-> r.renderpass]
           /\ returned' = Returns(returned, r.ok, color, depth, is_clear,
                                  r.renderpass)
    /\ UNCHANGED <<framebuffers, state, fb_objects, commands, begun,
                   executed>>
    /\ UNCHANGED threadvars

(* ---------------------------------------------------------------------- *)
(* The begin/end state machine and the framebuffer cache                    *)
(* ---------------------------------------------------------------------- *)

\* scheduler.Record(command): the scheduler keeps the commands in the order
\* they were recorded
Record(recorded, command) == Append(recorded, command)

\* the command of cmdbuf.endRenderPass()
EndCommand == [kind |-> "end"]

\* a begin command that always announces one clear value
BeginCommandCountOne(renderpass, framebuffer, render_area, do_clear, clear) ==
    [kind |-> "begin", renderPass |-> renderpass, framebuffer |-> framebuffer,
     renderArea |-> render_area, clearValueCount |-> 1, clearValue |-> clear]

\* the command of cmdbuf.beginRenderPass(renderpass_begin_info, ...), with
\* what the lambda captured by value
BeginCommand(renderpass, framebuffer, render_area, do_clear, clear) ==
    [kind |-> "begin", renderPass |-> renderpass, framebuffer |-> framebuffer,
     renderArea |-> render_area,
     clearValueCount |-> IF do_clear THEN 1 ELSE 0,
     clearValue |-> clear]

\* an EndRendering() that takes the begin command back instead of recording
\* an end
EndRenderingRetract(st, recorded) ==
    IF ~st.rendering
    THEN [state |-> st, commands |-> recorded]
    ELSE [state |-> [st EXCEPT !.rendering = FALSE],
          commands |-> SubSeq(recorded, 1, Len(recorded) - 1)]

\* an EndRendering() without the early return
EndRenderingAlways(st, recorded) ==
    [state |-> [st EXCEPT !.rendering = FALSE],
     commands |-> Record(recorded, EndCommand)]

\* EndRendering(): the render state and the recorded commands it leaves
EndRenderingCall(st, recorded) ==
    IF ~st.rendering
    THEN [state |-> st, commands |-> recorded]
    ELSE [state |-> [st EXCEPT !.rendering = FALSE],
          commands |-> Record(recorded, EndCommand)]

\* a comparison that also looks at the color words of the clear value
SameConfigurationWholeClear(st, views, do_clear, clear) ==
    /\ st.views = views
    /\ st.do_clear = do_clear
    /\ st.clear = clear
    /\ st.rendering

\* a comparison that reads the rendering flag negated
SameConfigurationInverted(st, views, do_clear, clear) ==
    /\ st.views = views
    /\ st.do_clear = do_clear
    /\ DepthStencil(st.clear) = DepthStencil(clear)
    /\ ~st.rendering

\* a comparison that forgets the rendering flag
SameConfigurationNoFlag(st, views, do_clear, clear) ==
    /\ st.views = views
    /\ st.do_clear = do_clear
    /\ DepthStencil(st.clear) = DepthStencil(clear)

\* the condition of the early return of BeginRendering
SameConfiguration(st, views, do_clear, clear) ==
    /\ st.views = views
    /\ st.do_clear = do_clear
    /\ DepthStencil(st.clear) = DepthStencil(clear)
    /\ st.rendering

\* a BeginRendering that does not end the pass it finds active
BeginPrologueNoEnd(st, recorded, fb, do_clear, clear) ==
    [state |-> [st EXCEPT !.views = fb.views,
                          !.do_clear = do_clear,
                          !.clear = clear,
                          !.rendering = TRUE],
     commands |-> recorded]

\* BeginRendering from EndRendering() to state.rendering = true
BeginPrologue(st, recorded, fb, do_clear, clear) ==
    LET ended == EndRenderingCall(st, recorded)
    IN  [state |-> [ended.state EXCEPT !.views = fb.views,
                                       !.do_clear = do_clear,
                                       !.clear = clear,
                                       !.rendering = TRUE],
         commands |-> ended.commands]

\* a key that leaves the dimensions out
FramebufferInfoNoSize(fb) ==
    [color |-> fb.views[1], depth |-> fb.views[2], width |-> 0, height |-> 0]

\* const FramebufferInfo framebuffer_info = {...}
FramebufferInfo(fb) ==
    [color |-> fb.views[1], depth |-> fb.views[2],
     width |-> fb.width, height |-> fb.height]

\* a CreateFramebuffer that leaves the render pass of the create info null
CreateFramebufferNoPass(info, renderpass) ==
    LET first == IF info.color # 0 THEN <<info.color>> ELSE <<>>
        second == IF info.depth # 0 THEN <<info.depth>> ELSE <<>>
    IN  [renderPass |-> 0,
         attachments |-> first \o second,
         attachmentCount |-> Len(first) + Len(second),
         width |-> info.width, height |-> info.height, layers |-> 1]

\* CreateFramebuffer: the vk::FramebufferCreateInfo handed to the device
CreateFramebuffer(info, renderpass) ==
    LET first == IF info.color # 0 THEN <<info.color>> ELSE <<>>
        second == IF info.depth # 0 THEN <<info.depth>> ELSE <<>>
    IN  [renderPass |-> renderpass,
         attachments |-> first \o second,
         attachmentCount |-> Len(first) + Len(second),
         width |-> info.width, height |-> info.height, layers |-> 1]

\* framebuffers.try_emplace(framebuffer_info) and the creation on a new
\* entry: the map, the device's framebuffers, and *it->second
EmplaceFramebuffer(map, objects, info, renderpass) ==
    IF info \in DOMAIN map
    THEN [map |-> map, objects |-> objects, framebuffer |-> map[info]]
    ELSE LET created == Append(objects, CreateFramebuffer(info, renderpass))
         IN  [map |-> (info :> Len(created)) @@ map,
              objects |-> created, framebuffer |-> Len(created)]

\* the attachment-set identity of a framebuffer: its color view, its depth
\* view, its width and its height
Identity(fb) ==
    [color |-> fb.views[1], depth |-> fb.views[2],
     width |-> fb.width, height |-> fb.height]

\* what the passes begun since the last clear referenced: the identity of
\* the framebuffer given and the framebuffer the begin command carries
Begun(seen, fb, framebuffer) ==
    seen \cup {[info |-> Identity(fb), framebuffer |-> framebuffer]}

\* void BeginRendering(const Framebuffer& framebuffer, bool do_clear,
\*                     vk::ClearValue clear)
BeginRendering(fb, do_clear, clear) ==
    /\ ~aborted
    /\ pc[RecordingThread] = "idle"
    /\ MutexFree(cache_mutex)
    /\ last_call' = [op |-> "BeginRendering",
                     args |-> <<fb, do_clear, clear>>,
                     active |-> state.rendering, ret |-> 0]
    /\ IF SameConfiguration(state, fb.views, do_clear, clear)
       THEN UNCHANGED <<cached_renderpasses, framebuffers, state, rp_objects,
                        fb_objects, commands, aborted, returned, begun>>
       ELSE LET pro == BeginPrologue(state, commands, fb, do_clear, clear)
                info == FramebufferInfo(fb)
                r == GetRenderpassCall(cached_renderpasses, rp_objects,
                                       fb.color_format, fb.depth_format,
                                       do_clear)
                e == EmplaceFramebuffer(framebuffers, fb_objects, info,
                                        r.renderpass)
            IN  /\ Len(r.objects) <= MaxRenderPassObjects
                /\ state' = pro.state
                /\ cached_renderpasses' = r.table
                /\ rp_objects' = r.objects
                /\ aborted' = ~r.ok
                /\ returned' = Returns(returned, r.ok, fb.color_format,
                                       fb.depth_format, do_clear, r.renderpass)
                /\ IF r.ok
                   THEN /\ Len(e.objects) <= MaxFramebufferObjects
                        /\ Len(pro.commands) < MaxCommands
                        /\ framebuffers' = e.map
                        /\ fb_objects' = e.objects
                        /\ commands' = Record(pro.commands,
                               BeginCommand(r.renderpass, e.framebuffer,
                                            fb.render_area, do_clear, clear))
                        /\ begun' = Begun(begun, fb, e.framebuffer)
                   ELSE /\ commands' = pro.commands
                        /\ UNCHANGED <<framebuffers, fb_objects, begun>>
    /\ UNCHANGED executed
    /\ UNCHANGED threadvars

\* void EndRendering()
EndRendering ==
    /\ ~aborted
    /\ pc[RecordingThread] = "idle"
    /\ LET ended == EndRenderingCall(state, commands)
       IN  /\ Len(ended.commands) <= MaxCommands
           /\ state' = ended.state
           /\ commands' = ended.commands
    /\ last_call' = [op |-> "EndRendering", args |-> <<>>,
                     active |-> state.rendering, ret |-> 0]
    /\ UNCHANGED <<cached_renderpasses, framebuffers, rp_objects, fb_objects,
                   aborted, returned, begun, executed>>
    /\ UNCHANGED threadvars

\* a clear that also leaves the active pass
ClearAndLeavePass ==
    /\ ~aborted
    /\ pc[RecordingThread] = "idle"
    /\ framebuffers' = EmptyMap
    /\ state' = [state EXCEPT !.rendering = FALSE]
    /\ last_call' = [op |-> "ClearFramebuffers", args |-> <<>>,
                     active |-> state.rendering, ret |-> 0]
    /\ begun' = {}
    /\ UNCHANGED <<cached_renderpasses, rp_objects, fb_objects, commands,
                   aborted, returned, executed>>
    /\ UNCHANGED threadvars

\* a clear that resets the render-pass table as well
ClearEverything ==
    /\ ~aborted
    /\ pc[RecordingThread] = "idle"
    /\ framebuffers' = EmptyMap
    /\ cached_renderpasses' = [s \in Slots |-> 0]
    /\ last_call' = [op |-> "ClearFramebuffers", args |-> <<>>,
                     active |-> state.rendering, ret |-> 0]
    /\ begun' = {}
    /\ UNCHANGED <<state, rp_objects, fb_objects, commands, aborted, returned,
                   executed>>
    /\ UNCHANGED threadvars

\* void ClearFramebuffers()
ClearFramebuffers ==
    /\ ~aborted
    /\ pc[RecordingThread] = "idle"
    /\ framebuffers' = EmptyMap
    /\ last_call' = [op |-> "ClearFramebuffers", args |-> <<>>,
                     active |-> state.rendering, ret |-> 0]
    /\ begun' = {}
    /\ UNCHANGED <<cached_renderpasses, state, rp_objects, fb_objects,
                   commands, aborted, returned, executed>>
    /\ UNCHANGED threadvars

(* ---------------------------------------------------------------------- *)
(* The calls of one sequence of callers                                     *)
(* ---------------------------------------------------------------------- *)

Next ==
    \/ \E fb \in FramebufferArgs, c \in ClearArgs :
           BeginRendering(fb, c[1], c[2])
    \/ EndRendering
    \/ ClearFramebuffers
    \/ \E color \in SequenceColorArgs, depth \in SequenceDepthArgs,
          is_clear \in BOOLEAN :
           GetRenderpass(color, depth, is_clear)

Spec == Init /\ [][Next]_vars

(* ---------------------------------------------------------------------- *)
(* GetRenderpass on its own, over the ordinals of ColorArgs and DepthArgs   *)
(* ---------------------------------------------------------------------- *)

NextKeys ==
    \E color \in ColorArgs, depth \in DepthArgs, is_clear \in BOOLEAN :
        GetRenderpass(color, depth, is_clear)

SpecKeys == Init /\ [][NextKeys]_vars

(* ---------------------------------------------------------------------- *)
(* GetRenderpass on its own, over the ordinals next to the sentinels        *)
(* ---------------------------------------------------------------------- *)

\* Color ordinal 5 and depth ordinal 18 are the largest the assertion lets
\* through; Invalid is the absent attachment
AliasColorArgs == {0, 5, Invalid}
AliasDepthArgs == {14, 18, Invalid}

NextAlias ==
    \E color \in AliasColorArgs, depth \in AliasDepthArgs,
       is_clear \in BOOLEAN :
        GetRenderpass(color, depth, is_clear)

SpecAlias == Init /\ [][NextAlias]_vars

(* ---------------------------------------------------------------------- *)
(* Concurrent callers: GetRenderpass statement by statement                 *)
(* ---------------------------------------------------------------------- *)

\* The formats the worker threads ask a render pass for (those of fbA), and
\* what the recording thread begins its passes with meanwhile
ThreadColorArgs == {0}
ThreadDepthArgs == {14}
ThreadFramebufferArgs == {fbA, fbB}
ThreadClearArgs == {<<FALSE, ClearZero>>, <<TRUE, ClearZero>>}

\* The slots the calls in flight may still create a render pass for
InFlightSlots ==
    {<<ColorIndex(frame[t].color), DepthIndex(frame[t].depth),
       frame[t].is_clear>> :
         t \in {u \in Threads : pc[u] \in {"lock", "index", "lookup", "create"}}}

\* Bound of the model: a call is started only when the render passes it and
\* the calls in flight may create stay within MaxRenderPassObjects
RoomForRenderpass(color, depth, is_clear) ==
    LET slots == InFlightSlots \cup
                   {<<ColorIndex(color), DepthIndex(depth), is_clear>>}
    IN  Len(rp_objects) +
          Cardinality({s \in slots : cached_renderpasses[s] = 0})
            <= MaxRenderPassObjects

\* a worker thread calls GetRenderpass(color, depth, is_clear)
CallGetRenderpass(t, color, depth, is_clear) ==
    /\ ~aborted
    /\ pc[t] = "idle"
    /\ RoomForRenderpass(color, depth, is_clear)
    /\ pc' = [pc EXCEPT ![t] = "lock"]
    /\ frame' = [frame EXCEPT ![t] =
                    [NoFrame EXCEPT !.color = color, !.depth = depth,
                                    !.is_clear = is_clear,
                                    !.inside = "GetRenderpass"]]
    /\ UNCHANGED <<cachevars, cache_mutex>>

\* the recording thread calls BeginRendering: the early return, or
\* EndRendering() and the state update up to the call of GetRenderpass
BeginRenderingEnter(fb, do_clear, clear) ==
    /\ ~aborted
    /\ pc[RecordingThread] = "idle"
    /\ IF SameConfiguration(state, fb.views, do_clear, clear)
       THEN /\ last_call' = [op |-> "BeginRendering",
                             args |-> <<fb, do_clear, clear>>,
                             active |-> state.rendering, ret |-> 0]
            /\ UNCHANGED <<state, commands, pc, frame>>
       ELSE LET pro == BeginPrologue(state, commands, fb, do_clear, clear)
            IN  /\ Len(pro.commands) < MaxCommands
                /\ RoomForRenderpass(fb.color_format, fb.depth_format,
                                     do_clear)
                /\ \/ FramebufferInfo(fb) \in DOMAIN framebuffers
                   \/ Len(fb_objects) < MaxFramebufferObjects
                /\ state' = pro.state
                /\ commands' = pro.commands
                /\ pc' = [pc EXCEPT ![RecordingThread] = "lock"]
                /\ frame' = [frame EXCEPT ![RecordingThread] =
                       [NoFrame EXCEPT !.color = fb.color_format,
                                       !.depth = fb.depth_format,
                                       !.is_clear = do_clear,
                                       !.fb = fb, !.do_clear = do_clear,
                                       !.clear = clear,
                                       !.inside = "BeginRendering"]]
                /\ UNCHANGED last_call
    /\ UNCHANGED <<cached_renderpasses, framebuffers, rp_objects, fb_objects,
                   aborted, returned, begun, executed, cache_mutex>>

\* std::scoped_lock lock{cache_mutex};
Lock(t) ==
    /\ ~aborted
    /\ pc[t] = "lock"
    /\ MutexFree(cache_mutex)
    /\ cache_mutex' = t
    /\ pc' = [pc EXCEPT ![t] = "index"]
    /\ UNCHANGED <<cachevars, frame>>

\* color_index, depth_index and ASSERT_MSG
Index(t) ==
    /\ ~aborted
    /\ pc[t] = "index"
    /\ LET color_index == ColorIndex(frame[t].color)
           depth_index == DepthIndex(frame[t].depth)
       IN  IF IndexAssert(color_index, depth_index)
           THEN /\ frame' = [frame EXCEPT ![t].slot =
                               <<color_index, depth_index, frame[t].is_clear>>]
                /\ pc' = [pc EXCEPT ![t] = "lookup"]
                /\ UNCHANGED aborted
           ELSE /\ aborted' = TRUE
                /\ UNCHANGED <<pc, frame>>
    /\ UNCHANGED <<cached_renderpasses, framebuffers, state, rp_objects,
                   fb_objects, commands, last_call, returned, begun, executed,
                   cache_mutex>>

\* vk::UniqueRenderPass& renderpass = cached_renderpasses[...]; if (!renderpass)
Lookup(t) ==
    /\ ~aborted
    /\ pc[t] = "lookup"
    /\ IF LookupMiss(cached_renderpasses, frame[t].slot)
       THEN /\ pc' = [pc EXCEPT ![t] = "create"]
            /\ UNCHANGED frame
       ELSE /\ pc' = [pc EXCEPT ![t] = "unlock"]
            /\ frame' = [frame EXCEPT ![t].renderpass =
                           cached_renderpasses[frame[t].slot]]
    /\ UNCHANGED <<cachevars, cache_mutex>>

\* renderpass = CreateRenderPass(color_format, depth_format, load_op);
Create(t) ==
    /\ ~aborted
    /\ pc[t] = "create"
    /\ rp_objects' = Append(rp_objects,
           CreateRenderPass(NativeFormat(frame[t].color),
                            NativeFormat(frame[t].depth),
                            LoadOp(frame[t].is_clear)))
    /\ cached_renderpasses' =
           [cached_renderpasses EXCEPT ![frame[t].slot] = Len(rp_objects')]
    /\ frame' = [frame EXCEPT ![t].renderpass = Len(rp_objects')]
    /\ pc' = [pc EXCEPT ![t] = "unlock"]
    /\ UNCHANGED <<framebuffers, state, fb_objects, commands, aborted,
                   last_call, returned, begun, executed, cache_mutex>>

\* a return that leaves the mutex locked
ReturnKeepsLock(t) ==
    /\ ~aborted
    /\ pc[t] = "unlock"
    /\ UNCHANGED cache_mutex
    /\ returned' = Returns(returned, TRUE, frame[t].color, frame[t].depth,
                           frame[t].is_clear, frame[t].renderpass)
    /\ IF frame[t].inside = "BeginRendering"
       THEN /\ pc' = [pc EXCEPT ![t] = "emplace"]
            /\ UNCHANGED last_call
            /\ UNCHANGED frame
       ELSE /\ pc' = [pc EXCEPT ![t] = "idle"]
            /\ frame' = [frame EXCEPT ![t] = NoFrame]
            /\ last_call' = [op |-> "GetRenderpass",
                             args |-> <<frame[t].color, frame[t].depth,
                                        frame[t].is_clear>>,
                             active |-> state.rendering,
                             ret |-> frame[t].renderpass]
    /\ UNCHANGED <<cached_renderpasses, framebuffers, state, rp_objects,
                   fb_objects, commands, aborted, begun, executed>>

\* return *renderpass; and the release of the lock
Return(t) ==
    /\ ~aborted
    /\ pc[t] = "unlock"
    /\ cache_mutex' = 0
    /\ returned' = Returns(returned, TRUE, frame[t].color, frame[t].depth,
                           frame[t].is_clear, frame[t].renderpass)
    /\ IF frame[t].inside = "BeginRendering"
       THEN /\ pc' = [pc EXCEPT ![t] = "emplace"]
            /\ UNCHANGED last_call
            /\ UNCHANGED frame
       ELSE /\ pc' = [pc EXCEPT ![t] = "idle"]
            /\ frame' = [frame EXCEPT ![t] = NoFrame]
            /\ last_call' = [op |-> "GetRenderpass",
                             args |-> <<frame[t].color, frame[t].depth,
                                        frame[t].is_clear>>,
                             active |-> state.rendering,
                             ret |-> frame[t].renderpass]
    /\ UNCHANGED <<cached_renderpasses, framebuffers, state, rp_objects,
                   fb_objects, commands, aborted, begun, executed>>

\* the rest of BeginRendering: try_emplace, CreateFramebuffer, Record
BeginRenderingFinish ==
    /\ ~aborted
    /\ pc[RecordingThread] = "emplace"
    /\ LET f == frame[RecordingThread]
           e == EmplaceFramebuffer(framebuffers, fb_objects,
                                   FramebufferInfo(f.fb), f.renderpass)
       IN  /\ framebuffers' = e.map
           /\ fb_objects' = e.objects
           /\ commands' = Record(commands,
                  BeginCommand(f.renderpass, e.framebuffer, f.fb.render_area,
                               f.do_clear, f.clear))
           /\ begun' = Begun(begun, f.fb, e.framebuffer)
           /\ last_call' = [op |-> "BeginRendering",
                            args |-> <<f.fb, f.do_clear, f.clear>>,
                            active |-> FALSE, ret |-> 0]
    /\ pc' = [pc EXCEPT ![RecordingThread] = "idle"]
    /\ frame' = [frame EXCEPT ![RecordingThread] = NoFrame]
    /\ UNCHANGED <<cached_renderpasses, state, rp_objects, aborted, returned,
                   executed, cache_mutex>>

NextThreads ==
    \/ \E t \in WorkerThreads, color \in ThreadColorArgs,
          depth \in ThreadDepthArgs, is_clear \in BOOLEAN :
           CallGetRenderpass(t, color, depth, is_clear)
    \/ \E fb \in ThreadFramebufferArgs, c \in ThreadClearArgs :
           BeginRenderingEnter(fb, c[1], c[2])
    \/ \E t \in Threads : Lock(t)
    \/ \E t \in Threads : Index(t)
    \/ \E t \in Threads : Lookup(t)
    \/ \E t \in Threads : Create(t)
    \/ \E t \in Threads : Return(t)
    \/ BeginRenderingFinish
    \/ EndRendering
    \/ ClearFramebuffers

SpecThreads == Init /\ [][NextThreads]_vars

\* The same callers under a fair scheduler: a thread inside GetRenderpass
\* that can take its next statement eventually takes it, and a thread that
\* waits for the mutex gets it if the mutex is free again and again.
FairThreads ==
    \A t \in Threads :
        /\ SF_vars(Lock(t))
        /\ WF_vars(Index(t))
        /\ WF_vars(Lookup(t))
        /\ WF_vars(Create(t))
        /\ WF_vars(Return(t))

\* The callers that reach the mutex: the worker threads, and the recording
\* thread beginning and ending passes on one framebuffer
NextLock ==
    \/ \E t \in WorkerThreads, color \in ThreadColorArgs,
          depth \in ThreadDepthArgs, is_clear \in BOOLEAN :
           CallGetRenderpass(t, color, depth, is_clear)
    \/ \E c \in ThreadClearArgs : BeginRenderingEnter(fbA, c[1], c[2])
    \/ \E t \in Threads : Lock(t)
    \/ \E t \in Threads : Index(t)
    \/ \E t \in Threads : Lookup(t)
    \/ \E t \in Threads : Create(t)
    \/ \E t \in Threads : Return(t)
    \/ BeginRenderingFinish
    \/ EndRendering

SpecLockFair == Init /\ [][NextLock]_vars /\ FairThreads

(* ---------------------------------------------------------------------- *)
(* One sequence of callers and the scheduler that executes the commands     *)
(* ---------------------------------------------------------------------- *)

\* The scheduler runs the oldest recorded command that it has not run yet
\* (commands execute in the order they were recorded).
ExecuteCommand ==
    /\ ~aborted
    /\ executed < Len(commands)
    /\ executed' = executed + 1
    /\ UNCHANGED <<cached_renderpasses, framebuffers, state, rp_objects,
                   fb_objects, commands, aborted, last_call, returned, begun>>
    /\ UNCHANGED threadvars

NextExec ==
    \/ \E fb \in ThreadFramebufferArgs, c \in ThreadClearArgs :
           BeginRendering(fb, c[1], c[2])
    \/ EndRendering
    \/ ClearFramebuffers
    \/ \E color \in ThreadColorArgs, depth \in ThreadDepthArgs,
          is_clear \in BOOLEAN :
           GetRenderpass(color, depth, is_clear)
    \/ ExecuteCommand

SpecExec == Init /\ [][NextExec]_vars

(* ---------------------------------------------------------------------- *)
(* Properties of the calls of one sequence of callers                       *)
(* ---------------------------------------------------------------------- *)

\* the slots of the table that hold a render pass
Populated == {s \in Slots : cached_renderpasses[s] # 0}

\* the last recorded command
LastCommand(recorded) == recorded[Len(recorded)]

\* the arguments of the call that completed last, when it is a BeginRendering
CalledFb == last_call.args[1]
CalledDoClear == last_call.args[2]
CalledClear == last_call.args[3]

\* C1: GetRenderpass is memoized: any two returns for the same arguments,
\* whatever was called between them (standalone or from BeginRendering),
\* carry the same handle, and the device created exactly one render pass per
\* populated slot (no slot's render pass was ever created twice).
C1_Memoized ==
    /\ \A x \in returned : \A y \in returned :
          x.args = y.args => x.handle = y.handle
    /\ \A x \in returned : x.handle \in 1..Len(rp_objects)
    /\ Len(rp_objects) = Cardinality(Populated)

\* C1 witness: a standalone GetRenderpass returned the handle that an earlier
\* BeginRendering recorded, after the pass was ended and the framebuffers
\* were cleared in between.
C1_Witness ==
    /\ last_call.op = "GetRenderpass"
    /\ last_call.ret # 0
    /\ Len(commands) >= 2
    /\ commands[1].kind = "begin"
    /\ commands[1].renderPass = last_call.ret
    /\ Len(fb_objects) > 0
    /\ framebuffers = EmptyMap
    /\ ~state.rendering

\* C2: a BeginRendering called while Inactive records exactly one begin
\* command and no end command; called while Active with other views, another
\* do_clear or another clear.depthStencil, it records exactly one end command
\* and then one begin command.
C2_BeginCommands ==
    [][(last_call'.op = "BeginRendering" /\ ~aborted') =>
        LET fb == last_call'.args[1]
            do_clear == last_call'.args[2]
            clear == last_call'.args[3]
            differs == \/ state.views # fb.views
                       \/ state.do_clear # do_clear
                       \/ <<state.clear[1], state.clear[2]>> #
                              <<clear[1], clear[2]>>
        IN  /\ ~state.rendering =>
                  /\ Len(commands') = Len(commands) + 1
                  /\ SubSeq(commands', 1, Len(commands)) = commands
                  /\ LastCommand(commands').kind = "begin"
            /\ (state.rendering /\ differs) =>
                  /\ Len(commands') = Len(commands) + 2
                  /\ SubSeq(commands', 1, Len(commands)) = commands
                  /\ commands'[Len(commands) + 1].kind = "end"
                  /\ commands'[Len(commands) + 2].kind = "begin"]_vars

\* C2 witness: BeginRendering was called while a pass of another view set was
\* Active, and the log ends with that pass's begin, an end and a begin.
C2_Witness ==
    /\ last_call.op = "BeginRendering"
    /\ last_call.active
    /\ Len(commands) = 3
    /\ commands[1].kind = "begin"
    /\ commands[2].kind = "end"
    /\ commands[3].kind = "begin"
    /\ commands[3].framebuffer # commands[1].framebuffer

\* C3: a BeginRendering called while Active with the views, the do_clear and
\* the clear.depthStencil of the active configuration records nothing, leaves
\* the render state as it is, and neither looks up nor creates a framebuffer
\* or a render pass.
C3_BeginNoOp ==
    [][(/\ last_call'.op = "BeginRendering"
        /\ state.rendering
        /\ state.views = last_call'.args[1].views
        /\ state.do_clear = last_call'.args[2]
        /\ <<state.clear[1], state.clear[2]>> =
              <<last_call'.args[3][1], last_call'.args[3][2]>>)
       => UNCHANGED <<commands, state, framebuffers, fb_objects,
                      cached_renderpasses, rp_objects, returned, aborted>>]_vars

\* C3 witness: BeginRendering was called while Active for a framebuffer other
\* than the one the pass was begun for (same views), and still only the one
\* begin command is recorded.
C3_Witness ==
    /\ last_call.op = "BeginRendering"
    /\ last_call.active
    /\ state.rendering
    /\ Len(commands) = 1
    /\ CalledFb.render_area # commands[1].renderArea

\* C4: an EndRendering called while Inactive records nothing and leaves the
\* render state as it is; called while Active it clears the rendering flag
\* and records exactly one end command.
C4_EndRendering ==
    [][last_call'.op = "EndRendering" =>
        IF state.rendering
        THEN /\ ~state'.rendering
             /\ state' = [state EXCEPT !.rendering = FALSE]
             /\ commands' = commands \o <<[kind |-> "end"]>>
        ELSE UNCHANGED <<state, commands>>]_vars

\* C4 witness: EndRendering was called while Active and its end command is
\* the last of the log.
C4_Witness ==
    /\ last_call.op = "EndRendering"
    /\ last_call.active
    /\ ~state.rendering
    /\ Len(commands) = 2
    /\ commands[2].kind = "end"

\* C4 witness of the other case: EndRendering was called while Inactive, with
\* a begin and an end recorded before, and nothing was added.
C4_WitnessInactive ==
    /\ last_call.op = "EndRendering"
    /\ ~last_call.active
    /\ ~state.rendering
    /\ Len(commands) = 2

\* C5 (the claim as stated): the BeginRendering that follows a
\* ClearFramebuffers, for an attachment-set identity a framebuffer was created
\* for before the clear, creates a new framebuffer object and records a begin
\* command that references it, in whatever render state it is called.
C5_RebuildAfterClear ==
    [][(/\ last_call.op = "ClearFramebuffers"
        /\ last_call'.op = "BeginRendering"
        /\ \E i \in 1..Len(fb_objects) :
              /\ fb_objects[i].width = last_call'.args[1].width
              /\ fb_objects[i].height = last_call'.args[1].height
              /\ fb_objects[i].attachments =
                    SelectSeq(last_call'.args[1].views, LAMBDA v : v # 0))
       => /\ Len(fb_objects') = Len(fb_objects) + 1
          /\ Len(commands') > Len(commands)
          /\ LastCommand(commands').kind = "begin"
          /\ LastCommand(commands').framebuffer = Len(fb_objects')]_vars

\* C6: a BeginRendering called while Active with the same views, do_clear and
\* clear.depthStencil but another color clear value records nothing; the
\* begin command of the pass and the stored state keep the first clear value.
C6_ColorClearDropped ==
    [][(/\ last_call'.op = "BeginRendering"
        /\ state.rendering
        /\ state.views = last_call'.args[1].views
        /\ state.do_clear = last_call'.args[2]
        /\ <<state.clear[1], state.clear[2]>> =
              <<last_call'.args[3][1], last_call'.args[3][2]>>
        /\ state.clear # last_call'.args[3])
       => /\ commands' = commands
          /\ state' = state
          /\ LastCommand(commands').kind = "begin"
          /\ LastCommand(commands').clearValue = state'.clear
          /\ LastCommand(commands').clearValue # last_call'.args[3]]_vars

\* C6 witness: BeginRendering was called while Active with a clear value that
\* differs from the stored one in a color word only, and the single begin
\* command carries the stored one.
C6_Witness ==
    /\ last_call.op = "BeginRendering"
    /\ last_call.active
    /\ state.rendering
    /\ CalledFb.views = state.views
    /\ CalledDoClear = state.do_clear
    /\ CalledClear # state.clear
    /\ <<CalledClear[1], CalledClear[2]>> = <<state.clear[1], state.clear[2]>>
    /\ Len(commands) = 1
    /\ commands[1].clearValue = state.clear

\* C7: the begin command a BeginRendering(fb, do_clear, clear) records carries
\* the render pass stored for (fb's color format, fb's depth format,
\* do_clear), which is the handle GetRenderpass returned for them, the
\* framebuffer cached for fb's identity, fb's render area, the clear value
\* given, and a clear-value count of 1 if do_clear and 0 otherwise.
C7_BeginCommandContents ==
    [][(last_call'.op = "BeginRendering" /\ commands' # commands) =>
        LET fb == last_call'.args[1]
            do_clear == last_call'.args[2]
            clear == last_call'.args[3]
            c == LastCommand(commands')
            slot == <<ColorIndex(fb.color_format), DepthIndex(fb.depth_format),
                      do_clear>>
            info == [color |-> fb.views[1], depth |-> fb.views[2],
                     width |-> fb.width, height |-> fb.height]
        IN  /\ c.kind = "begin"
            /\ c.renderPass # 0
            /\ c.renderPass = cached_renderpasses'[slot]
            /\ [args |-> <<fb.color_format, fb.depth_format, do_clear>>,
                handle |-> c.renderPass] \in returned'
            /\ info \in DOMAIN framebuffers'
            /\ c.framebuffer = framebuffers'[info]
            /\ c.renderArea = fb.render_area
            /\ c.clearValue = clear
            /\ c.clearValueCount = (IF do_clear THEN 1 ELSE 0)]_vars

\* C7 witness: BeginRendering(fbA, ...) then BeginRendering(fbB, ...): the log
\* is begin, end, begin, and the second begin references fbB's framebuffer
\* and render pass, not those of the first.
C7_Witness ==
    /\ last_call.op = "BeginRendering"
    /\ last_call.active
    /\ CalledFb = fbB
    /\ Len(commands) = 3
    /\ commands[2].kind = "end"
    /\ commands[1].renderArea = fbA.render_area
    /\ commands[3].framebuffer # commands[1].framebuffer
    /\ commands[3].renderPass # commands[1].renderPass
    /\ fb_objects[commands[3].framebuffer].attachments = <<3>>

\* C10: ClearFramebuffers empties the framebuffer cache and leaves the
\* render-pass table and the device's render passes as they are; and no call
\* at all empties or overwrites a populated slot of the table or removes a
\* render pass the device created.
C10_ClearKeepsRenderpasses ==
    [][/\ last_call'.op = "ClearFramebuffers" =>
            /\ DOMAIN framebuffers' = {}
            /\ cached_renderpasses' = cached_renderpasses
            /\ rp_objects' = rp_objects
       /\ \A s \in Slots :
            cached_renderpasses[s] # 0 =>
                cached_renderpasses'[s] = cached_renderpasses[s]
       /\ Len(rp_objects') >= Len(rp_objects)
       /\ SubSeq(rp_objects', 1, Len(rp_objects)) = rp_objects]_vars

\* C10 witness: ClearFramebuffers was called with framebuffers created and
\* render passes in the table, and the table still holds them.
C10_Witness ==
    /\ last_call.op = "ClearFramebuffers"
    /\ Len(fb_objects) > 0
    /\ framebuffers = EmptyMap
    /\ Cardinality(Populated) = 2

(* ---------------------------------------------------------------------- *)
(* Properties of the concurrent callers                                     *)
(* ---------------------------------------------------------------------- *)

\* the threads between the acquisition and the release of cache_mutex
InsideLock == {t \in Threads : pc[t] \in {"index", "lookup", "create", "unlock"}}

\* C8: under every interleaving of the threads, at most one call is between
\* the acquisition and the release of the lock; the device created exactly
\* one render pass per populated slot (none twice); and all returns for the
\* same arguments, whether to a worker or to BeginRendering, carry the same
\* handle, which is the one a call about to return carries for its slot.
C8_AtomicGetRenderpass ==
    /\ Cardinality(InsideLock) <= 1
    /\ Len(rp_objects) = Cardinality(Populated)
    /\ \A x \in returned : \A y \in returned :
          x.args = y.args => x.handle = y.handle
    /\ \A t \in Threads : \A x \in returned :
          (pc[t] \in {"unlock", "emplace"} /\
           x.args = <<frame[t].color, frame[t].depth, frame[t].is_clear>>)
            => frame[t].renderpass = x.handle

\* C8 witness: a worker is about to return, inside the lock, the handle that
\* BeginRendering on the recording thread already got for the same key,
\* while the other worker waits for the lock with the same key.
C8_Witness ==
    /\ pc[RecordingThread] = "emplace"
    /\ \E t \in WorkerThreads : \E u \in WorkerThreads :
          /\ pc[t] = "unlock"
          /\ cache_mutex = t
          /\ pc[u] = "lock"
          /\ frame[t].color = frame[RecordingThread].color
          /\ frame[t].depth = frame[RecordingThread].depth
          /\ frame[t].is_clear = frame[RecordingThread].is_clear
          /\ frame[u].color = frame[t].color
          /\ frame[u].depth = frame[t].depth
          /\ frame[u].is_clear = frame[t].is_clear
          /\ frame[t].renderpass = frame[RecordingThread].renderpass
          /\ frame[t].renderpass # 0

(* ---------------------------------------------------------------------- *)
(* Properties of the key derivation                                         *)
(* ---------------------------------------------------------------------- *)

\* C9: a GetRenderpass(color, depth, is_clear) uses color index 5 for Invalid
\* and the ordinal otherwise, depth index 4 for Invalid and the ordinal minus
\* 14 (in u32) otherwise: ordinal 14 has depth index 0 and ordinal 17 has 3.
\* When both indices are in range the handle of that slot is returned; when
\* the color index is above 5 or the depth index above 4 the assertion fires,
\* the table and the device's render passes are as before and no handle is
\* returned.
C9_KeyDerivation ==
    [][last_call'.op = "GetRenderpass" =>
        LET color == last_call'.args[1]
            depth == last_call'.args[2]
            is_clear == last_call'.args[3]
            color_index == IF color = -1 THEN 5 ELSE color
            depth_index == IF depth = -1 THEN 4 ELSE depth - 14
            in_range == /\ color_index \in 0..5
                        /\ depth_index \in 0..4
        IN  /\ (depth = 14 => depth_index = 0) /\ (depth = 17 => depth_index = 3)
            /\ ColorIndex(color) = color_index
            /\ DepthIndex(depth) = depth_index
            /\ IF in_range
               THEN /\ ~aborted'
                    /\ last_call'.ret # 0
                    /\ cached_renderpasses'[<<color_index, depth_index,
                                              is_clear>>] = last_call'.ret
                    /\ \A s \in Slots :
                          s # <<color_index, depth_index, is_clear>> =>
                              cached_renderpasses'[s] = cached_renderpasses[s]
               ELSE /\ aborted'
                    /\ last_call'.ret = 0
                    /\ returned' = returned
                    /\ cached_renderpasses' = cached_renderpasses
                    /\ rp_objects' = rp_objects]_vars

\* C9 witness: after a call with depth ordinal 17 populated a slot of depth
\* index 3, a call with depth ordinal 19 (depth index 5) hit the assertion.
C9_Witness ==
    /\ aborted
    /\ last_call.op = "GetRenderpass"
    /\ last_call.args[2] = 19
    /\ last_call.ret = 0
    /\ \E c \in 0..5, b \in BOOLEAN : cached_renderpasses[<<c, 3, b>>] # 0

(* ---------------------------------------------------------------------- *)
(* The render passes of the table                                           *)
(* ---------------------------------------------------------------------- *)

\* the create info of the render pass a populated slot holds
StoredPass(s) == rp_objects[cached_renderpasses[s]]

\* the load op the slot's is_clear flag stands for
SlotLoadOp(s) == IF s[3] THEN "eClear" ELSE "eLoad"

\* C11: every render pass stored in the table has, on each attachment it
\* describes, loadOp = eClear when the is_clear flag of its slot is true and
\* eLoad when it is false, and storeOp = eStore; its depth attachment has
\* that same load op and eStore for the stencil component.
C11_LoadStoreOps ==
    \A s \in Populated :
        LET pass == StoredPass(s)
        IN  /\ \A i \in 1..Len(pass.attachments) :
                   /\ pass.attachments[i].loadOp = SlotLoadOp(s)
                   /\ pass.attachments[i].storeOp = "eStore"
            /\ pass.depthStencilAttachment # -1
                 => LET depth ==
                            pass.attachments[pass.depthStencilAttachment + 1]
                    IN  /\ depth.stencilLoadOp = SlotLoadOp(s)
                        /\ depth.stencilStoreOp = "eStore"

\* a loading and a clearing render pass are stored, each with a color and a
\* depth attachment
C11_Witness ==
    \E s, t \in Populated :
        /\ s[3] /\ ~t[3]
        /\ StoredPass(s).attachmentCount = 2
        /\ StoredPass(t).attachmentCount = 2
        /\ StoredPass(t).depthStencilAttachment = 1

(* ---------------------------------------------------------------------- *)
(* The framebuffer cache                                                    *)
(* ---------------------------------------------------------------------- *)

\* the framebuffers the cache holds
LiveFramebuffers == {framebuffers[i] : i \in DOMAIN framebuffers}

\* C12: the cache holds exactly one framebuffer object per attachment-set
\* identity (color view, depth view, width, height) that a BeginRendering
\* which was not a no-op used since construction or the last
\* ClearFramebuffers; begin commands of equal identities with no clear
\* between them carry the same framebuffer handle, and begin commands of
\* identities that differ in any field carry different handles.
C12_OneFramebufferPerIdentity ==
    /\ DOMAIN framebuffers = {b.info : b \in begun}
    /\ \A b \in begun : framebuffers[b.info] = b.framebuffer
    /\ \A a, b \in begun : a.info # b.info => a.framebuffer # b.framebuffer
    /\ Cardinality(LiveFramebuffers) = Cardinality(DOMAIN framebuffers)
    /\ \A i \in DOMAIN framebuffers :
           /\ framebuffers[i] \in 1..Len(fb_objects)
           /\ fb_objects[framebuffers[i]].width = i.width
           /\ fb_objects[framebuffers[i]].height = i.height
           /\ fb_objects[framebuffers[i]].attachments =
                  SelectSeq(<<i.color, i.depth>>, LAMBDA v : v # 0)

\* two passes were begun on one identity since the last clear, and both
\* begin commands carry the one framebuffer the cache holds for it
C12_Witness ==
    /\ Len(commands) = 3
    /\ commands[1].kind = "begin"
    /\ commands[3].kind = "begin"
    /\ commands[1].framebuffer = commands[3].framebuffer
    /\ LiveFramebuffers = {commands[3].framebuffer}
    /\ Cardinality(begun) = 1

(* ---------------------------------------------------------------------- *)
(* The render state and the recorded commands                               *)
(* ---------------------------------------------------------------------- *)

\* a step of BeginRendering that did not take the early return
BeginStep ==
    /\ last_call'.op = "BeginRendering"
    /\ ~SameConfiguration(state, last_call'.args[1].views, last_call'.args[2],
                          last_call'.args[3])

\* C13: after every BeginRendering(fb, do_clear, clear) that is not a no-op
\* the render state is Active with the views of fb, the given do_clear, the
\* given clear value, and the render area of fb.
C13_StateAfterBegin ==
    [][BeginStep =>
          state' = [views |-> last_call'.args[1].views,
                    render_area |-> last_call'.args[1].render_area,
                    clear |-> last_call'.args[3],
                    do_clear |-> last_call'.args[2],
                    rendering |-> TRUE]]_vars

\* C14: the recorded commands are append-only and by value: no operation
\* (BeginRendering, EndRendering, GetRenderpass, ClearFramebuffers) removes
\* or reorders a recorded command or changes the render pass, framebuffer,
\* render area, clear value or clear-value count it carries, and the
\* commands are executed in the order they were recorded.
C14_AppendOnly ==
    [][/\ Len(commands') >= Len(commands)
       /\ SubSeq(commands', 1, Len(commands)) = commands
       /\ executed' \in {executed, executed + 1}
       /\ executed' <= Len(commands')]_vars

\* two of three recorded commands were executed, and the first begin command
\* still carries its framebuffer after ClearFramebuffers destroyed it and a
\* GetRenderpass followed
C14_Witness ==
    /\ Len(commands) = 3
    /\ executed = 2
    /\ commands[1].kind = "begin"
    /\ commands[1].framebuffer = 1
    /\ framebuffers = EmptyMap
    /\ last_call.op = "GetRenderpass"

\* C15: the render state (views, render area, clear value, do_clear, active
\* flag) is changed by BeginRendering and EndRendering only: GetRenderpass
\* and ClearFramebuffers leave every field of it as it is and record no
\* command, in whatever state they are called.
C15_StateFrame ==
    [][last_call'.op \in {"GetRenderpass", "ClearFramebuffers"}
          => UNCHANGED <<state, commands>>]_vars

\* ClearFramebuffers was called while a pass was Active and GetRenderpass
\* after it: the pass is still Active and its begin is the only command
C15_Witness ==
    /\ last_call.op = "GetRenderpass"
    /\ last_call.active
    /\ state.rendering
    /\ framebuffers = EmptyMap
    /\ Len(fb_objects) = 1
    /\ Len(commands) = 1

(* ---------------------------------------------------------------------- *)
(* What CreateRenderPass builds                                             *)
(* ---------------------------------------------------------------------- *)

\* the attachment formats CreateRenderPass is to describe for the native
\* formats of a color and a depth pixel format: the defined ones, color first
DefinedFormats(color, depth) ==
    SelectSeq(<<NativeFormat(color), NativeFormat(depth)>>, LAMBDA f : f # 0)

\* the formats of the attachment descriptions of a render pass, in order
AttachmentFormats(pass) ==
    [i \in 1..Len(pass.attachments) |-> pass.attachments[i].format]

\* C16: CreateRenderPass builds one attachment description per defined native
\* format, color first and then depth, so the attachment count is the number
\* of defined formats (0, 1 or 2); its one subpass has no input attachment
\* and no dependency, a color attachment reference (to attachment 0) exactly
\* when a color format is defined, and a depth attachment reference (to
\* attachment 1 when color is defined, else 0) exactly when a depth format is
\* defined.
C16_RenderPassLayout ==
    [][Len(rp_objects') = Len(rp_objects) + 1 =>
          LET pass == rp_objects'[Len(rp_objects')]
              color == NativeFormat(last_call'.args[1])
              depth == NativeFormat(last_call'.args[2])
          IN  /\ AttachmentFormats(pass) =
                     DefinedFormats(last_call'.args[1], last_call'.args[2])
              /\ pass.attachmentCount = Len(pass.attachments)
              /\ pass.attachmentCount \in 0..2
              /\ pass.subpassCount = 1
              /\ pass.inputAttachmentCount = 0
              /\ pass.dependencyCount = 0
              /\ pass.colorAttachmentCount = (IF color # 0 THEN 1 ELSE 0)
              /\ pass.colorAttachment = (IF color # 0 THEN 0 ELSE -1)
              /\ pass.depthStencilAttachment =
                     (IF depth = 0 THEN -1 ELSE IF color # 0 THEN 1 ELSE 0)]_vars

\* GetRenderpass just created a render pass with a depth attachment and no
\* color attachment, after one with neither was created
C16_Witness ==
    /\ last_call.op = "GetRenderpass"
    /\ last_call.args[1] = Invalid
    /\ last_call.args[2] # Invalid
    /\ last_call.ret # 0
    /\ last_call.ret = Len(rp_objects)
    /\ rp_objects[last_call.ret].attachmentCount = 1
    /\ rp_objects[last_call.ret].depthStencilAttachment = 0
    /\ \E h \in 1..Len(rp_objects) : rp_objects[h].attachmentCount = 0

(* ---------------------------------------------------------------------- *)
(* The shape of the recorded commands                                       *)
(* ---------------------------------------------------------------------- *)

\* C17: in every state reachable by BeginRendering, EndRendering,
\* GetRenderpass and ClearFramebuffers calls, the recorded commands
\* alternate begin, end, begin, ... starting with a begin, and the state is
\* Active exactly when the last recorded command is a begin (Inactive when
\* nothing is recorded or the last command is an end).
C17_Alternation ==
    /\ \A i \in 1..Len(commands) :
           commands[i].kind = (IF i % 2 = 1 THEN "begin" ELSE "end")
    /\ state.rendering =
           (Len(commands) > 0 /\ LastCommand(commands).kind = "begin")

\* a pass was begun and replaced by a pass of another configuration, which
\* is still Active after a ClearFramebuffers and a GetRenderpass
C17_Witness ==
    /\ Len(commands) = 3
    /\ commands[2].kind = "end"
    /\ commands[3].kind = "begin"
    /\ state.rendering
    /\ framebuffers = EmptyMap
    /\ last_call.op = "GetRenderpass"

(* ---------------------------------------------------------------------- *)
(* The render pass a framebuffer was created against                        *)
(* ---------------------------------------------------------------------- *)

\* the positions of the begin commands
Begins == {i \in 1..Len(commands) : commands[i].kind = "begin"}

\* the first begin command that carries the framebuffer of command i
FirstUse(i) ==
    CHOOSE j \in Begins :
        /\ commands[j].framebuffer = commands[i].framebuffer
        /\ \A k \in Begins :
               commands[k].framebuffer = commands[i].framebuffer => j <= k

C19_InjectiveKeys ==
    /\ \A x \in returned : \A y \in returned :
           x.args # y.args => x.handle # y.handle
    /\ \A x \in returned :
           /\ AttachmentFormats(rp_objects[x.handle]) =
                  DefinedFormats(x.args[1], x.args[2])
           /\ \A i \in 1..Len(rp_objects[x.handle].attachments) :
                  rp_objects[x.handle].attachments[i].loadOp =
                      (IF x.args[3] THEN "eClear" ELSE "eLoad")

(* ---------------------------------------------------------------------- *)
(* Framebuffers that commands still refer to                                *)
(* ---------------------------------------------------------------------- *)

\* the begin commands that are recorded and not yet executed
PendingBegins == {i \in Begins : i > executed}

\* C20: no begin command that is recorded and not yet executed, and no
\* Active pass, references a framebuffer that was destroyed: the framebuffer
\* of each pending begin command and of the active pass is an entry of the
\* framebuffer cache, for any interleaving of BeginRendering, EndRendering,
\* ClearFramebuffers and command execution.
C20_NoDestroyedFramebuffer ==
    /\ \A i \in PendingBegins : commands[i].framebuffer \in LiveFramebuffers
    /\ state.rendering =>
           /\ Len(commands) > 0
           /\ LastCommand(commands).kind = "begin"
           /\ LastCommand(commands).framebuffer \in LiveFramebuffers

(* ---------------------------------------------------------------------- *)
(* What the command stream holds when BeginRendering returns                *)
(* ---------------------------------------------------------------------- *)

\* C21: whenever BeginRendering(fb, ...) returns, the most recently recorded
\* begin command carries the render area of fb and the framebuffer object of
\* the width and height of fb: a change of render area or of dimensions
\* between two BeginRendering calls on the same views reaches the recorded
\* commands.
C21_BeginReachesCommands ==
    (last_call.op = "BeginRendering" /\ ~aborted) =>
        /\ Len(commands) > 0
        /\ LastCommand(commands).kind = "begin"
        /\ LastCommand(commands).renderArea = CalledFb.render_area
        /\ fb_objects[LastCommand(commands).framebuffer].width = CalledFb.width
        /\ fb_objects[LastCommand(commands).framebuffer].height =
               CalledFb.height

(* ---------------------------------------------------------------------- *)
(* The depth index in 32 unsigned bits                                      *)
(* ---------------------------------------------------------------------- *)

\* the u32 hi * 2^16 + lo, for 16-bit halves hi and lo, held as the integer
\* that has its 32 bits
U32OfHalves(hi, lo) ==
    IF hi < 2^15 THEN hi * 2^16 + lo ELSE (hi - 2^16) * 2^16 + lo

\* (ordinal - 14) mod 2^32 for an ordinal below 14 is 2^32 - (14 - ordinal):
\* all bits of the high half set, and 2^16 - (14 - ordinal) in the low half
WrappedHigh == 2^16 - 1
WrappedLow(ordinal) == 2^16 - (14 - ordinal)

\* C22: the depth index is computed in unsigned 32-bit arithmetic: for a
\* depth argument other than Invalid whose ordinal is below the base offset
\* 14, (ordinal - 14) mod 2^32 is above MAX_DEPTH_FORMATS, so the call hits
\* the assertion instead of indexing the table; no GetRenderpass call indexes
\* the table outside [0..5] x [0..4] x [0..1].
C22_UnsignedDepthIndex ==
    [][last_call'.op = "GetRenderpass" =>
        LET color == last_call'.args[1]
            depth == last_call'.args[2]
            is_clear == last_call'.args[3]
        IN  /\ (depth # Invalid /\ depth \in 0..13) =>
                  /\ DepthIndex(depth) =
                         U32OfHalves(WrappedHigh, WrappedLow(depth))
                  /\ WrappedHigh > 0
                  /\ ~LeqU32(U32OfHalves(WrappedHigh, WrappedLow(depth)),
                             MAX_DEPTH_FORMATS)
                  /\ aborted'
                  /\ last_call'.ret = 0
                  /\ cached_renderpasses' = cached_renderpasses
                  /\ rp_objects' = rp_objects
            /\ ~aborted' =>
                  /\ <<ColorIndex(color), DepthIndex(depth), is_clear>>
                         \in Slots
                  /\ cached_renderpasses'[<<ColorIndex(color),
                         DepthIndex(depth), is_clear>>] = last_call'.ret
            /\ DOMAIN cached_renderpasses' = Slots]_vars

\* after a render pass was stored, a call with depth ordinal 0 hit the
\* assertion
C22_Witness ==
    /\ aborted
    /\ last_call.op = "GetRenderpass"
    /\ last_call.args[2] = 0
    /\ last_call.ret = 0
    /\ Populated # {}

(* ---------------------------------------------------------------------- *)
(* Progress of the callers of GetRenderpass                                 *)
(* ---------------------------------------------------------------------- *)

\* the threads between the acquisition and the release of the mutex
Holders == {t \in Threads : pc[t] \in {"index", "lookup", "create", "unlock"}}

\* the mutex is held by the one thread inside the locked region, so a thread
\* that is about to lock it (a new call, or BeginRendering calling
\* GetRenderpass) does not hold it already
LockedOnce ==
    /\ \A t \in Threads : pc[t] = "lock" => cache_mutex # t
    /\ Holders = (IF cache_mutex = 0 THEN {} ELSE {cache_mutex})

====
